---- MODULE Spec2Model ----
(***************************************************************************)
(* Model of the nrf-mcp server (TypeScript): the Process Runner (run), the *)
(* Output Formatter (fmt/truncate), the Environment Resolver (config.ts),  *)
(* port discovery (findNordicPort), the tool handlers (flash,              *)
(* get_build_info, read_uart_logs, reset_board, list_boards) and the Node  *)
(* event loop on which they are dispatched.                                *)
(*                                                                         *)
(* Pure functions are operators; each has a specification whose Init draws *)
(* its inputs and whose action applies it (variables op, input, output).   *)
(* The server specification Spec models the single-threaded event loop:    *)
(* every action is one run-to-completion callback, `now` is the wall       *)
(* clock in seconds.                                                       *)
(***************************************************************************)
EXTENDS Integers, Sequences, FiniteSets, TLC

VARIABLES
    op,       \* "ready" | "done" in a function-level specification, "server" in Spec
    input,    \* the inputs drawn for the function under check
    output,   \* what the function returned (meaningful when op = "done")
    now,      \* wall clock of the server, seconds
    uart,     \* per read_uart_logs call: the promise, the port handle, the timer
    boards,   \* the pending list_boards call (awaiting SerialPort.list())
    last      \* the last response the request handler produced

vars == <<op, input, output, now, uart, boards, last>>
fnVars == <<op, input, output>>
srvVars == <<now, uart, boards, last>>

----------------------------------------------------------------------------
(* Optional values (undefined / null) are sets with at most one element.   *)
None == {}
Some(x) == {x}
Get(o) == CHOOSE x \in o : TRUE
\* JavaScript's a ?? b
Coalesce(o, d) == IF o = None THEN d ELSE Get(o)

(* A text is the sequence of its lines (the string split on "\n"), so the  *)
(* empty string is the one-line text <<Blank>>.  A line is a record: kind, *)
(* a string and a number.                                                  *)
Line(k, a, n) == [k |-> k, a |-> a, n |-> n]
Blank == Line("blank", "", 0)
Txt(i) == Line("text", "", i)
Msg(m) == Line("text", m, 0)
EmptyStr == <<Blank>>
\* content lines i..j
Lines(i, j) == [x \in 1..(j - i + 1) |-> Txt(i + x - 1)]
\* k blank lines
Blanks(k) == [x \in 1..k |-> Blank]

----------------------------------------------------------------------------
(* run.ts: the Process Runner                                              *)

\* the sentinel of run.ts:35 (err.status ?? -1)
NoStatus == 0 - 1
\* exit statuses a child is given in the model: 0..MaxExit
MaxExit == 2

\* What a child wrote before it ended.
ProcTexts == {EmptyStr, <<Txt(1), Blank>>, <<Txt(1), Txt(2)>>}

(* The outcomes of execFileSync(cmd, args, {timeout, ...}) (run.ts:18-24): *)
(*  exit     the child exited by itself with `status`;                     *)
(*  timeout  the timeout elapsed and the child was sent SIGTERM: status is *)
(*           null when the signal killed it, the child's own exit status   *)
(*           when it handled the signal and exited;                        *)
(*  signal   the child was killed by a signal not sent by the runner;      *)
(*  spawn    the child never started (ENOENT, EACCES, invalid argument):   *)
(*           no status, no captured output.                                *)
ExecOutcomes ==
    [kind : {"exit"}, status : {Some(s) : s \in 0..MaxExit},
     stdout : {Some(t) : t \in ProcTexts}, stderr : {Some(t) : t \in ProcTexts}]
    \cup
    [kind : {"timeout"}, status : {None} \cup {Some(s) : s \in 0..MaxExit},
     stdout : {Some(t) : t \in ProcTexts}, stderr : {Some(t) : t \in ProcTexts}]
    \cup
    [kind : {"signal"}, status : {None},
     stdout : {Some(t) : t \in ProcTexts}, stderr : {Some(t) : t \in ProcTexts}]
    \cup
    [kind : {"spawn"}, status : {None}, stdout : {None}, stderr : {None}]

\* execFileSync returns stdout on a clean exit and throws the error object
\* (carrying status, stdout, stderr, message) otherwise.
execFileSync(o) ==
    IF o.kind = "exit" /\ o.status = Some(0)
    THEN [threw |-> FALSE, stdout |-> Get(o.stdout), err |-> o]
    ELSE [threw |-> TRUE, stdout |-> EmptyStr, err |-> o]

\* err.message of the thrown error
message(o) == <<Msg(o.kind)>>

\* How a call ends: it returns one value, or an exception propagates.
Return(v) == [raised |-> FALSE, results |-> <<v>>]
Throw(e) == [raised |-> TRUE, results |-> <<>>]

\* run without its catch clause: the error of execFileSync propagates
runUncaught(o) ==
    LET r == execFileSync(o) IN
    IF ~r.threw
    THEN Return([ok |-> TRUE, code |-> 0, stdout |-> r.stdout, stderr |-> EmptyStr])
    ELSE Throw(r.err.kind)

\* run(cmd, args, cwd, timeoutMs), as decided by the child's outcome o
run(o) ==
    LET r == execFileSync(o) IN
    IF ~r.threw
    THEN Return([ok |-> TRUE, code |-> 0, stdout |-> r.stdout, stderr |-> EmptyStr])
    ELSE Return([ok |-> FALSE,
                 code |-> Coalesce(r.err.status, NoStatus),
                 stdout |-> Coalesce(r.err.stdout, EmptyStr),
                 stderr |-> Coalesce(r.err.stderr, message(r.err))])

\* the RunResult of a call that returned
Result(o) == run(o).results[1]

----------------------------------------------------------------------------
(* Specification of run: one call per behaviour.                           *)
InitRun ==
    /\ op = "ready"
    /\ input \in ExecOutcomes
    /\ output = <<>>
    /\ now = 0 /\ uart = <<>> /\ boards = <<>> /\ last = <<>>

CallRun ==
    /\ op = "ready"
    /\ output' = run(input)
    /\ op' = "done"
    /\ UNCHANGED <<input, srvVars>>

NextRun == CallRun

SpecRun == InitRun /\ [][NextRun]_vars

(* C1: run never raises: whatever the child's outcome, the call returns    *)
(* exactly one RunResult and no exception propagates.                      *)
RunNeverRaises ==
    op = "done" =>
        /\ ~output.raised
        /\ Len(output.results) = 1
        /\ output.results[1].ok \in BOOLEAN
        /\ output.results[1].code \in Int

\* a failing child (timeout, spawn failure, nonzero exit) whose call returned
RunFailureReturned ==
    /\ op = "done"
    /\ input.kind \in {"timeout", "spawn"}
    /\ ~output.raised
    /\ ~output.results[1].ok

(* C2: the result encodes the outcome: ok = TRUE and code = 0 on a clean   *)
(* exit; otherwise ok = FALSE and code is the exit status when known, else *)
(* -1; hence ok <=> code = 0, and a timeout gives ok = FALSE with a        *)
(* nonzero code.                                                           *)
RunResultEncodesOutcome ==
    op = "done" =>
        LET r == output.results[1] IN
        /\ (input.kind = "exit" /\ input.status = Some(0)) => (r.ok /\ r.code = 0)
        /\ ~(input.kind = "exit" /\ input.status = Some(0)) =>
               (~r.ok /\ r.code = Coalesce(input.status, NoStatus))
        /\ (r.ok <=> r.code = 0)
        /\ input.kind = "timeout" => (~r.ok /\ r.code # 0)

----------------------------------------------------------------------------
(* run.ts: the Output Formatter                                            *)

MAX_LINES == 60
\* the cap fmt passes for the stdout of a successful result
OK_LINES == 20
\* the longest stdout drawn for fmt has MaxTextLines content lines
MaxTextLines == 62

IsBlank(l) == l.k = "blank"
AllBlank(t) == \A i \in 1..Len(t) : IsBlank(t[i])
FirstInk(t) == CHOOSE i \in 1..Len(t) : ~IsBlank(t[i]) /\ \A j \in 1..(i - 1) : IsBlank(t[j])
LastInk(t) == CHOOSE i \in 1..Len(t) : ~IsBlank(t[i]) /\ \A j \in (i + 1)..Len(t) : IsBlank(t[j])
\* String.prototype.trim(): leading and trailing whitespace (blank lines) go;
\* a text of blank lines only becomes the empty string
trim(t) == IF AllBlank(t) THEN EmptyStr ELSE SubSeq(t, FirstInk(t), LastInk(t))
\* a string is truthy when it is not empty
Truthy(t) == t # EmptyStr

Omitted(k) == Line("omitted", "", k)
StderrHeader == Line("stderr", "", 0)

\* truncate that keeps the head whatever `keep` says
truncateHead(text, maxLines, keep) ==
    IF Len(text) <= maxLines THEN text
    ELSE SubSeq(text, 1, maxLines) \o <<Omitted(Len(text) - maxLines)>>

truncate(text, maxLines, keep) ==
    LET lines == text
        omitted == Len(lines) - maxLines
    IN  IF Len(lines) <= maxLines THEN text
        ELSE IF keep = "tail"
             THEN <<Omitted(omitted)>> \o SubSeq(lines, Len(lines) - maxLines + 1, Len(lines))
             ELSE SubSeq(lines, 1, maxLines) \o <<Omitted(omitted)>>

\* the header line "=== label: OK ===" / "=== label: FAILED (exit code) ==="
Header(result, label) ==
    IF result.ok THEN Line("OK", label, 0) ELSE Line("FAILED", label, result.code)

fmt(result, label) ==
    LET p1 == <<Header(result, label)>>
        p2 == IF Truthy(trim(result.stdout))
              THEN truncate(trim(result.stdout), IF result.ok THEN OK_LINES ELSE MAX_LINES, "tail")
              ELSE <<>>
        p3 == IF Truthy(trim(result.stderr))
              THEN <<StderrHeader>> \o truncate(trim(result.stderr), MAX_LINES, "tail")
              ELSE <<>>
    IN  p1 \o p2 \o p3

\* the texts drawn for fmt: lead blank lines, n content lines, trail blank lines
Text(lead, n, trail) ==
    IF lead + n + trail = 0 THEN EmptyStr ELSE Blanks(lead) \o Lines(1, n) \o Blanks(trail)
FmtStdouts == {Text(a, n, b) : a \in 0..1, n \in 0..MaxTextLines, b \in 0..1}
FmtStderrs == {EmptyStr, Blanks(2), Lines(1, 1), Text(0, 2, 1), Lines(1, MaxTextLines)}
FmtResults ==
    [ok : {TRUE}, code : {0}, stdout : FmtStdouts, stderr : FmtStderrs]
    \cup [ok : {FALSE}, code : {NoStatus, 1}, stdout : FmtStdouts, stderr : FmtStderrs]

InitFmt ==
    /\ op = "ready"
    /\ input \in FmtResults
    /\ output = <<>>
    /\ now = 0 /\ uart = <<>> /\ boards = <<>> /\ last = <<>>

CallFmt ==
    /\ op = "ready"
    /\ output' = fmt(input, "BUILD")
    /\ op' = "done"
    /\ UNCHANGED <<input, srvVars>>

NextFmt == CallFmt

SpecFmt == InitFmt /\ [][NextFmt]_vars

\* the cap the claim names for a result
CapOf(result) == IF result.ok THEN 20 ELSE 60
\* the body the claim names for a stdout s of n lines under cap N
TailBody(s, N) ==
    IF Len(s) <= N THEN s
    ELSE <<Omitted(Len(s) - N)>> \o [i \in 1..N |-> s[Len(s) - N + i]]

----------------------------------------------------------------------------
(* uart.ts: port discovery.  Strings that the code searches are sequences  *)
(* of characters.                                                          *)

\* String.prototype.includes
includes(s, sub) ==
    \E i \in 0..(Len(s) - Len(sub)) : SubSeq(s, i + 1, i + Len(sub)) = sub

sNordic == <<"N", "o", "r", "d", "i", "c">>
sACM == <<"A", "C", "M">>
sTtyUSB == <<"t", "t", "y", "U", "S", "B">>
s1915 == <<"1", "9", "1", "5">>

\* a PortInfo of SerialPort.list(): manufacturer, pnpId and vendorId are optional
PortInfo(path, manufacturer, pnpId, vendorId) ==
    [path |-> path, manufacturer |-> manufacturer, pnpId |-> pnpId, vendorId |-> vendorId]

PortSamples == {
    \* a J-Link CDC port: /dev/ttyACM0, SEGGER, VID 1366
    PortInfo(<<"t", "t", "y", "A", "C", "M", "0">>, Some(<<"S", "E", "G", "G", "E", "R">>),
             None, Some(<<"1", "3", "6", "6">>)),
    \* a Nordic USB CDC port on an ACM path
    PortInfo(<<"t", "t", "y", "A", "C", "M", "1">>, Some(<<"N", "o", "r", "d", "i", "c", " ", "S">>),
             None, Some(s1915)),
    \* Nordic only by its pnpId
    PortInfo(<<"C", "O", "M", "3">>, None, Some(<<"u", "s", "b", "-", "N", "o", "r", "d", "i", "c", "_">>),
             None),
    \* Nordic only by its vendor id
    PortInfo(<<"t", "t", "y", "S", "0">>, None, None, Some(s1915)),
    \* a USB-serial adapter
    PortInfo(<<"t", "t", "y", "U", "S", "B", "0">>, Some(<<"F", "T", "D", "I">>), None,
             Some(<<"0", "4", "0", "3">>)),
    \* lower-case "nordic" and a vendor id that only contains 1915: no match
    PortInfo(<<"t", "t", "y", "S", "1">>, Some(<<"n", "o", "r", "d", "i", "c">>), None,
             Some(<<"0", "1", "9", "1", "5">>)),
    \* nothing known
    PortInfo(<<"C", "O", "M", "4">>, None, None, None) }

\* port lists have at most MaxPorts entries
MaxPorts == 3
PortLists == UNION {[1..n -> PortSamples] : n \in 0..MaxPorts}

\* uart.ts:9-13
isNordic(p) ==
    \/ (p.manufacturer # None /\ includes(Get(p.manufacturer), sNordic))
    \/ (p.pnpId # None /\ includes(Get(p.pnpId), sNordic))
    \/ p.vendorId = Some(s1915)

\* uart.ts:20
isSerialPath(p) == includes(p.path, sACM) \/ includes(p.path, sTtyUSB)

\* the path a for..of loop with an early return gives: that of the first hit
FirstPath(ports, hits) ==
    IF hits = {} THEN None
    ELSE Some(ports[CHOOSE i \in hits : \A j \in hits : i <= j].path)

\* one loop that returns the first port matching either test
findNordicPortOneLoop(ports) ==
    FirstPath(ports, {i \in 1..Len(ports) : isNordic(ports[i]) \/ isSerialPath(ports[i])})

\* findNordicPort, given the list SerialPort.list() resolved to
findNordicPort(ports) ==
    LET nordic == FirstPath(ports, {i \in 1..Len(ports) : isNordic(ports[i])})
        serial == FirstPath(ports, {i \in 1..Len(ports) : isSerialPath(ports[i])})
    IN  IF nordic # None THEN nordic
        ELSE IF serial # None THEN serial
        ELSE None

InitPort ==
    /\ op = "ready"
    /\ input \in PortLists
    /\ output = <<>>
    /\ now = 0 /\ uart = <<>> /\ boards = <<>> /\ last = <<>>

CallFindNordicPort ==
    /\ op = "ready"
    /\ output' = findNordicPort(input)
    /\ op' = "done"
    /\ UNCHANGED <<input, srvVars>>

NextPort == CallFindNordicPort

SpecPort == InitPort /\ [][NextPort]_vars

\* the claim's two classes of port
ClaimNordic(p) ==
    \/ \E m \in p.manufacturer : includes(m, sNordic)
    \/ \E m \in p.pnpId : includes(m, sNordic)
    \/ \E v \in p.vendorId : v = s1915
ClaimSerial(p) == includes(p.path, sACM) \/ includes(p.path, sTtyUSB)

(* C9: findNordicPort returns the first Nordic port (manufacturer or pnpId *)
(* contains "Nordic", or vendorId is "1915") wherever it is in the list;   *)
(* else the first port whose path contains "ACM" or "ttyUSB"; else none;   *)
(* over the empty list it returns none.                                    *)
FindNordicPortPreference ==
    op = "done" =>
        LET n == Len(input)
            nordic == {i \in 1..n : ClaimNordic(input[i])}
            serial == {i \in 1..n : ClaimSerial(input[i])}
        IN  /\ nordic # {} =>
                \E i \in nordic : (\A j \in 1..(i - 1) : j \notin nordic)
                                  /\ output = Some(input[i].path)
            /\ (nordic = {} /\ serial # {}) =>
                \E i \in serial : (\A j \in 1..(i - 1) : j \notin serial)
                                  /\ output = Some(input[i].path)
            /\ (nordic = {} /\ serial = {}) => output = None
            /\ n = 0 => output = None

\* an ACM port precedes a Nordic port on a non-serial path, and the Nordic one is returned
NordicAfterSerialChosen ==
    /\ op = "done"
    /\ Len(input) >= 2
    /\ ClaimSerial(input[1]) /\ ~ClaimNordic(input[1])
    /\ ClaimNordic(input[2]) /\ ~ClaimSerial(input[2])
    /\ output = Some(input[2].path)

----------------------------------------------------------------------------
(* config.ts: the Environment Resolver.  A path is the sequence of its     *)
(* components ("" is <<>>, an absolute path starts with the component      *)
(* "/"); a file system is the set of the files it holds.                   *)

\* path.join: empty segments vanish
join(a, b) == a \o b

HOME == <<"/", "home">>
\* ~/ncs/toolchains
ncsToolchains == join(HOME, <<"ncs", "toolchains">>)
\* the toolchain directory names, in the order sort() gives them
ToolchainNames == <<"tc1", "tc2">>
\* a toolchain given by NRF_TOOLCHAIN
CustomToolchain == <<"/", "opt", "tc">>

\* fs.existsSync: the path is a file of fs or a directory above one; "" does not exist
existsSync(fs, p) ==
    /\ p # <<>>
    /\ \E q \in fs : Len(p) <= Len(q) /\ SubSeq(q, 1, Len(p)) = p

\* Array.prototype.find(existsSync) ?? fallback
findExisting(fs, candidates, fallback) ==
    LET hits == {i \in 1..Len(candidates) : existsSync(fs, candidates[i])}
    IN  IF hits = {} THEN fallback
        ELSE candidates[CHOOSE i \in hits : \A j \in hits : i <= j]

\* config.ts:21-38
autoDetectToolchain(fs) ==
    LET ncsDir == ncsToolchains
        entries == {i \in 1..Len(ToolchainNames) :
                       \/ existsSync(fs, join(ncsDir, <<ToolchainNames[i], "bin", "west">>))
                       \/ existsSync(fs, join(ncsDir, <<ToolchainNames[i], "bin", "west.exe">>))
                       \/ existsSync(fs, join(ncsDir, <<ToolchainNames[i], "usr", "local", "bin", "west">>))}
    IN  IF ~existsSync(fs, ncsDir) THEN None
        ELSE IF entries = {} THEN None
        ELSE Some(join(ncsDir, <<ToolchainNames[CHOOSE i \in entries : \A j \in entries : j <= i]>>))

\* config.ts:53-54
resolveToolchain(env, fs) ==
    IF env.NRF_TOOLCHAIN # None THEN Get(env.NRF_TOOLCHAIN)
    ELSE Coalesce(autoDetectToolchain(fs), <<>>)

\* config.ts:58-65
findWest(toolchain, fs, isWin) ==
    LET candidates ==
            << join(toolchain, <<"usr", "local", "bin", "west">>),
               join(toolchain, <<"bin", "west">>) >>
            \o (IF isWin THEN <<join(toolchain, <<"bin", "west.exe">>)>> ELSE <<>>)
    IN  findExisting(fs, candidates, join(toolchain, <<"bin", "west">>))

\* config.ts:81-93
findNrfjprog(toolchain, fs, isWin) ==
    LET exe == IF isWin THEN "nrfjprog.exe" ELSE "nrfjprog"
        candidates ==
            << join(toolchain, <<"usr", "local", "bin", exe>>),
               join(toolchain, <<"bin", exe>>),
               <<"/", "opt", "nrf-command-line-tools", "bin", "nrfjprog">>,
               <<"/", "usr", "local", "bin", "nrfjprog">>,
               <<"/", "Applications", "Nordic Semiconductor", "nrf-command-line-tools", "bin", "nrfjprog">>,
               <<"C:", "Program Files", "Nordic Semiconductor", "nrf-command-line-tools", "bin", "nrfjprog.exe">>,
               <<"C:", "Program Files (x86)", "Nordic Semiconductor", "nrf-command-line-tools", "bin", "nrfjprog.exe">> >>
    IN  findExisting(fs, candidates, <<"nrfjprog">>)

\* the module-level constants TOOLCHAIN, WEST and NRFJPROG (config.ts:53-95)
resolveConfig(env, fs, isWin) ==
    LET toolchain == resolveToolchain(env, fs)
    IN  [TOOLCHAIN |-> toolchain,
         WEST |-> IF env.NRF_WEST # None THEN Get(env.NRF_WEST) ELSE findWest(toolchain, fs, isWin),
         NRFJPROG |-> IF env.NRFJPROG # None THEN Get(env.NRFJPROG)
                      ELSE findNrfjprog(toolchain, fs, isWin)]

\* the files a host may hold
FsUniverse == {
    join(ncsToolchains, <<"tc1", "bin", "west">>),
    join(ncsToolchains, <<"tc2", "usr", "local", "bin", "west">>),
    join(ncsToolchains, <<"tc2", "bin", "nrfjprog">>),
    join(ncsToolchains, <<"README">>),
    join(CustomToolchain, <<"bin", "west">>),
    <<"/", "usr", "local", "bin", "nrfjprog">>,
    <<"bin", "west">> }

Envs ==
    [NRF_TOOLCHAIN : {None, Some(<<>>), Some(CustomToolchain)},
     NRF_WEST : {None, Some(<<"/", "usr", "bin", "west">>)},
     NRFJPROG : {None, Some(<<"/", "usr", "bin", "nrfjprog">>)}]

InitConfig ==
    /\ op = "ready"
    /\ input \in [env : Envs, fs : SUBSET FsUniverse, isWin : BOOLEAN]
    /\ output = <<>>
    /\ now = 0 /\ uart = <<>> /\ boards = <<>> /\ last = <<>>

LoadConfig ==
    /\ op = "ready"
    /\ output' = resolveConfig(input.env, input.fs, input.isWin)
    /\ op' = "done"
    /\ UNCHANGED <<input, srvVars>>

NextConfig == LoadConfig

SpecConfig == InitConfig /\ [][NextConfig]_vars

\* a bare command name: one component, no directory
IsBare(p, name) == p = <<name>>

(* C7: with no toolchain directory (TOOLCHAIN = "") and no override of the *)
(* binary, WEST and NRFJPROG fall back to the bare names "west" and        *)
(* "nrfjprog" when nothing is found on disk: never empty, never a path     *)
(* with directory components.                                              *)
BinariesFallBackToBareNames ==
    (op = "done" /\ output.TOOLCHAIN = <<>>) =>
        /\ (input.env.NRF_WEST = None /\ input.fs = {}) => IsBare(output.WEST, "west")
        /\ (input.env.NRFJPROG = None /\ input.fs = {}) => IsBare(output.NRFJPROG, "nrfjprog")

----------------------------------------------------------------------------
(* flash.ts: the flash handler and its board resolution                    *)

\* parts.join("\n\n"): the parts with an empty line between them
RECURSIVE JoinParts(_)
JoinParts(parts) ==
    IF Len(parts) = 0 THEN EmptyStr
    ELSE IF Len(parts) = 1 THEN parts[1]
    ELSE parts[1] \o <<Blank>> \o JoinParts(Tail(parts))

\* the sidecar build/.vscode-nrf-connect.json of a sample: absent (None), or a
\* file that may be unreadable, hold malformed JSON, the JSON value null, or an
\* object with or without a board field
SidecarFile(readable, json, board) == [readable |-> readable, json |-> json, board |-> board]
Sidecars == {
    None,
    Some(SidecarFile(FALSE, "object", Some("nrf54l15dk"))),
    Some(SidecarFile(TRUE, "malformed", None)),
    Some(SidecarFile(TRUE, "null", None)),
    Some(SidecarFile(TRUE, "object", None)),
    Some(SidecarFile(TRUE, "object", Some(""))),
    Some(SidecarFile(TRUE, "object", Some("nrf54l15dk"))) }

\* JSON.parse(readFileSync(cfgPath)).board: throws when the file cannot be read,
\* is not JSON, or parses to null
readBoard(file) ==
    IF ~file.readable \/ file.json # "object" THEN Throw("error") ELSE Return(file.board)

\* a board string is falsy when it is null/undefined or ""
NoBoard(b) == b = None \/ b = Some("")

\* getBoardFromVsCode with the parse error left to propagate
getBoardFromVsCodeUncaught(samplePath, sidecar) ==
    IF samplePath = None THEN Throw("TypeError")
    ELSE IF sidecar = None THEN Return(None)
    ELSE readBoard(Get(sidecar))

\* getBoardFromVsCode: path.join throws a TypeError on an undefined samplePath
getBoardFromVsCode(samplePath, sidecar) ==
    IF samplePath = None THEN Throw("TypeError")
    ELSE IF sidecar = None THEN Return(None)
    ELSE IF readBoard(Get(sidecar)).raised THEN Return(None)
    ELSE Return(readBoard(Get(sidecar)).results[1])

\* one call of run as the handlers make it
Proc(cmd, board, snr, cwd, timeoutMs, o) ==
    [cmd |-> cmd, board |-> board, snr |-> snr, cwd |-> cwd, timeoutMs |-> timeoutMs,
     result |-> Result(o)]

\* what a handler call did: the subprocesses it ran, then a text or an exception
Handled(procs, end) == [procs |-> procs, raised |-> end.raised, results |-> end.results]

ErrNoBoard == <<Line("ERROR", "No board specified for build step.", 0)>>

\* flash.ts:40-46: the flash step, after `parts` and `procs` of the build step
flashStep(args, parts, procs, fo) ==
    LET p == Proc("flash", None, args.snr, args.sample_path, 120000, fo)
    IN  IF args.sample_path = None
        THEN Handled(procs \o <<p>>, Throw("TypeError"))       \* basename(undefined)
        ELSE Handled(procs \o <<p>>, Return(JoinParts(parts \o <<fmt(p.result, "FLASH")>>)))

\* flash.ts:36-37 without the early return: the flash step follows a failed build
afterBuildNoReturn(args, p, fo) ==
    flashStep(args, <<fmt(p.result, "BUILD")>>, <<p>>, fo)

\* flash.ts:36-37: the build report is pushed; a failed build ends the call
afterBuild(args, p, fo) ==
    IF ~p.result.ok THEN Handled(<<p>>, Return(JoinParts(<<fmt(p.result, "BUILD")>>)))
    ELSE flashStep(args, <<fmt(p.result, "BUILD")>>, <<p>>, fo)

\* toolFlash(args), given the sidecar on disk and the outcomes of the build
\* and flash children
toolFlash(args, sidecar, bo, fo) ==
    LET samplePath == args.sample_path
        buildFirst == Coalesce(args.build_first, FALSE)
        looked == getBoardFromVsCode(samplePath, sidecar)
        board == IF ~NoBoard(args.board) THEN args.board
                 ELSE IF looked.raised THEN None ELSE looked.results[1]
        p == Proc("build", board, None, samplePath, 300000, bo)
    IN  IF ~buildFirst THEN flashStep(args, <<>>, <<>>, fo)
        ELSE IF NoBoard(args.board) /\ looked.raised THEN Handled(<<>>, Throw("TypeError"))
        ELSE IF NoBoard(board) THEN Handled(<<>>, Return(ErrNoBoard))
        ELSE IF samplePath = None THEN Handled(<<p>>, Throw("TypeError"))  \* basename(undefined)
        ELSE afterBuild(args, p, fo)

\* the outcomes drawn for the children of a handler
ProcOutcomes ==
    {o \in ExecOutcomes :
        /\ o.status \subseteq {0, 1}
        /\ o.stdout \subseteq {<<Txt(1), Txt(2)>>}
        /\ o.stderr \subseteq {EmptyStr}}

FlashArgs ==
    [sample_path : {None, Some("/work/sample")},
     build_first : {None, Some(FALSE), Some(TRUE)},
     board : {None, Some(""), Some("nrf52dk")},
     snr : {None, Some("683000001")}]

InitFlash ==
    /\ op = "ready"
    /\ input \in [args : FlashArgs, sidecar : Sidecars, build : ProcOutcomes, flash : ProcOutcomes]
    /\ output = <<>>
    /\ now = 0 /\ uart = <<>> /\ boards = <<>> /\ last = <<>>

CallFlash ==
    /\ op = "ready"
    /\ output' = toolFlash(input.args, input.sidecar, input.build, input.flash)
    /\ op' = "done"
    /\ UNCHANGED <<input, srvVars>>

NextFlash == CallFlash

SpecFlash == InitFlash /\ [][NextFlash]_vars

\* the positions of the runs of cmd in a call's subprocess log
RunsOf(cmd) == {i \in 1..Len(output.procs) : output.procs[i].cmd = cmd}

(* C3: in a flash call with build_first = true whose build run returns     *)
(* ok = false, the flash subprocess is never run and the text returned is  *)
(* the formatted build failure report alone; whenever both run, flash      *)
(* starts after a build that returned ok = true.                           *)
FlashShortCircuitsOnBuildFailure ==
    op = "done" =>
        /\ (input.args.build_first = Some(TRUE)
            /\ \E i \in RunsOf("build") : ~output.procs[i].result.ok) =>
               /\ RunsOf("flash") = {}
               /\ ~output.raised =>
                      output.results = <<fmt(run(input.build).results[1], "BUILD")>>
        /\ \A f \in RunsOf("flash") : \A b \in RunsOf("build") :
               b < f /\ output.procs[b].result.ok
        /\ \A f \in RunsOf("flash") :
               input.args.build_first = Some(TRUE) => RunsOf("build") # {}

\* a build-first flash whose build failed and which returned the report
FlashBuildFailedReported ==
    /\ op = "done"
    /\ input.args.build_first = Some(TRUE)
    /\ Len(output.procs) = 1
    /\ output.procs[1].cmd = "build"
    /\ ~output.procs[1].result.ok
    /\ ~output.raised
    /\ output.results[1][1] = Line("FAILED", "BUILD", output.procs[1].result.code)

\* the board argument is given: a non-empty string
BoardGiven == input.args.board # None /\ input.args.board # Some("")
\* the sidecar yields a board: a readable JSON object with a non-empty board
SidecarHasBoard ==
    \E f \in input.sidecar :
        f.readable /\ f.json = "object" /\ f.board # None /\ f.board # Some("")

(* C10: board resolution of the build step of flash (build_first = true,   *)
(* on a sample path): the board argument is used when given; otherwise the *)
(* board of the sidecar; when the argument is absent and the sidecar is    *)
(* missing, malformed or without a board, the handler returns the error    *)
(* string and runs no subprocess, and no parse error propagates.           *)
FlashBoardResolution ==
    (op = "done" /\ input.args.build_first = Some(TRUE) /\ input.args.sample_path # None) =>
        /\ BoardGiven =>
               /\ Len(output.procs) >= 1
               /\ output.procs[1].cmd = "build" /\ output.procs[1].board = input.args.board
        /\ (~BoardGiven /\ SidecarHasBoard) =>
               /\ Len(output.procs) >= 1
               /\ output.procs[1].cmd = "build"
               /\ \E f \in input.sidecar : output.procs[1].board = f.board
        /\ (~BoardGiven /\ ~SidecarHasBoard) =>
               /\ ~output.raised
               /\ output.results = <<ErrNoBoard>>
               /\ output.procs = <<>>

\* no board argument and a sidecar that is not JSON: the error string, no subprocess
FlashMalformedSidecar ==
    /\ op = "done"
    /\ input.args.build_first = Some(TRUE) /\ input.args.sample_path # None
    /\ input.args.board = None
    /\ \E f \in input.sidecar : f.json = "malformed"
    /\ output.results = <<ErrNoBoard>>
    /\ output.procs = <<>>

----------------------------------------------------------------------------
(* buildinfo.ts: get_build_info                                            *)

Section(name) == <<Line("section", name, 0)>>
NotFound(name) == <<Line("NOT FOUND", name, 0)>>

\* buildinfo.ts:12-17, 20-25: a file that is reported also when it is missing
fileOrNotFound(name, file) ==
    IF file # None THEN <<Section(name), Get(file)>> ELSE <<NotFound(name)>>

\* buildinfo.ts:28-31: domains.yaml is reported only when it exists
fileIfPresent(name, file) ==
    IF file # None THEN <<Section(name), Get(file)>> ELSE <<>>

\* toolGetBuildInfo(args), given the three files of <sample_path>/build
toolGetBuildInfo(args, files) ==
    IF args.sample_path = None THEN Handled(<<>>, Throw("TypeError"))   \* join(undefined, "build")
    ELSE Handled(<<>>, Return(JoinParts(
             fileOrNotFound(".vscode-nrf-connect.json", files.vscode)
             \o fileOrNotFound("build_info.yml", files.buildInfo)
             \o fileIfPresent("domains.yaml", files.domains))))

\* what a sidecar file may hold: raw text
FileTexts == {None, Some(EmptyStr), Some(<<Txt(1)>>), Some(<<Txt(1), Blank, Txt(2)>>)}

InitBuildInfo ==
    /\ op = "ready"
    /\ input \in [args : [sample_path : {None, Some("/work/sample")}],
                  files : [vscode : FileTexts, buildInfo : FileTexts, domains : FileTexts]]
    /\ output = <<>>
    /\ now = 0 /\ uart = <<>> /\ boards = <<>> /\ last = <<>>

CallGetBuildInfo ==
    /\ op = "ready"
    /\ output' = toolGetBuildInfo(input.args, input.files)
    /\ op' = "done"
    /\ UNCHANGED <<input, srvVars>>

NextBuildInfo == CallGetBuildInfo

SpecBuildInfo == InitBuildInfo /\ [][NextBuildInfo]_vars

\* the section a file contributes according to the claim
ClaimedSection(name, file) ==
    IF file = None THEN <<NotFound(name)>> ELSE <<Section(name), Get(file)>>

(* C4: get_build_info on a sample path returns, for each of the three      *)
(* sidecar files, its raw content or its NOT FOUND marker (three NOT FOUND *)
(* sections when none exists) and runs no process.                         *)
BuildInfoReportsEachFile ==
    (op = "done" /\ input.args.sample_path # None) =>
        /\ ~output.raised
        /\ output.procs = <<>>
        /\ output.results =
               << JoinParts(ClaimedSection(".vscode-nrf-connect.json", input.files.vscode)
                            \o ClaimedSection("build_info.yml", input.files.buildInfo)
                            \o ClaimedSection("domains.yaml", input.files.domains)) >>
        /\ (input.files.vscode = None /\ input.files.buildInfo = None /\ input.files.domains = None) =>
               Cardinality({i \in 1..Len(output.results[1]) :
                               output.results[1][i].k = "NOT FOUND"}) = 3

----------------------------------------------------------------------------
(* board.ts: reset_board and list_boards                                   *)

\* toolReset(args): one run of nrfjprog --reset, formatted
toolReset(args, o) ==
    LET p == Proc("reset", None, args.snr, None, 30000, o)
    IN  Handled(<<p>>, Return(fmt(p.result, "RESET")))

\* " path — manufacturer [VID:vendorId]", one line per port
PortLine(p) == [k |-> "port", a |-> p.path, n |-> 0]

\* toolListBoards(args): nrfjprog --ids, then (after the await) the port list
toolListBoards(o, ports) ==
    LET p == Proc("ids", None, None, None, 15000, o)
    IN  Handled(<<p>>,
                Return(fmt(p.result, "J-LINK BOARDS")
                       \o <<Line("section", "SERIAL PORTS", 0)>>
                       \o (IF Len(ports) = 0 THEN <<Line("text", "(none found)", 0)>>
                           ELSE [i \in 1..Len(ports) |-> PortLine(ports[i])])))

----------------------------------------------------------------------------
(* uart.ts: read_uart_logs, and the event loop the handlers run on         *)

\* args.duration_s ?? 5
DefaultDuration == 5
\* the largest duration_s a caller passes in the model
MaxDuration == 2
\* the clock stops at MaxTime
MaxTime == 6
\* a run of a child process blocks the event loop for up to MaxBlock seconds
MaxBlock == 2
\* lines counted per call
MaxUartLines == 2

\* the read_uart_logs calls the model follows
UartIds == {"u1"}

thePort == <<"t", "t", "y", "A", "C", "M", "0">>
UartArgs ==
    [port : {None, Some(thePort)},
     duration_s : {None} \cup {Some(d) : d \in 0..MaxDuration},
     baudIsNumber : BOOLEAN]

\* the port lists SerialPort.list() resolves to in the server specification
SrvPortLists ==
    {pl \in PortLists :
        Len(pl) <= 1 /\ \A i \in 1..Len(pl) : pl[i].pnpId = None /\ pl[i].manufacturer # None}

\* a call that has not been made
UartIdle ==
    [pc |-> "idle", port |-> None, d |-> 0, baudOk |-> TRUE, handle |-> "none",
     lines |-> 0, openedAt |-> 0, deadline |-> 0, firedAt |-> 0, promise |-> None,
     atResolve |-> "none"]

\* what the promise of a call resolves to
Resolved(kind, n) == [kind |-> kind, n |-> n]

\* resolve(v): the first resolution settles the promise, later ones do nothing;
\* atResolve keeps the state the port handle was in at that moment
resolve(c, v) ==
    IF c.promise = None THEN [c EXCEPT !.promise = Some(v), !.atResolve = c.handle] ELSE c

\* uart.ts:45-75: the promise executor.  new SerialPort throws on a baudRate
\* that is not a number; otherwise it starts opening the port (the open
\* completes in a later callback) and the timer is armed
listen(c, port, t) ==
    IF ~c.baudOk
    THEN resolve([c EXCEPT !.pc = "returned", !.port = Some(port)], Resolved("ERROR opening", 0))
    ELSE [c EXCEPT !.pc = "listening", !.port = Some(port), !.handle = "opening",
                   !.openedAt = t, !.deadline = t + c.d]

\* uart.ts:66-75: the timer callback.  sp.close() closes an open port; on a
\* port that is not open it only emits an error event
onTimer(c, t) ==
    resolve([c EXCEPT !.pc = "fired", !.firedAt = t,
                      !.handle = IF @ = "open" THEN "closed" ELSE @],
            IF c.lines = 0 THEN Resolved("No output", 0) ELSE Resolved("UART LOG", c.lines))

\* uart.ts:62-64: the error listener
onError(c) == resolve(c, Resolved("ERROR on", 0))

\* a timer that is due: the event loop runs it before the clock moves on
TimerDue(c) == c.pc = "listening" /\ c.deadline <= now

\* read_uart_logs is dispatched: toolReadUart up to its first await or to the
\* end of the promise executor
UartCall(u) ==
    /\ uart[u].pc = "idle"
    /\ \E a \in UartArgs :
         LET c == [uart[u] EXCEPT !.d = Coalesce(a.duration_s, DefaultDuration),
                                  !.baudOk = a.baudIsNumber]
         IN  /\ now + c.d <= MaxTime
             /\ uart' = [uart EXCEPT ![u] =
                           IF a.port # None THEN listen(c, Get(a.port), now)
                           ELSE [c EXCEPT !.pc = "finding"]]
    /\ UNCHANGED <<fnVars, now, boards, last>>

\* uart.ts:36-43: findNordicPort's SerialPort.list() resolved
UartFound(u) ==
    /\ uart[u].pc = "finding"
    /\ now + uart[u].d <= MaxTime
    /\ \E ports \in SrvPortLists :
         uart' = [uart EXCEPT ![u] =
                    IF findNordicPort(ports) # None
                    THEN listen(@, Get(findNordicPort(ports)), now)
                    ELSE [@ EXCEPT !.pc = "listing"]]
    /\ UNCHANGED <<fnVars, now, boards, last>>

\* uart.ts:40-42: the second SerialPort.list() resolved: the error text is returned
UartNoPort(u) ==
    /\ uart[u].pc = "listing"
    /\ uart' = [uart EXCEPT ![u] =
                  resolve([@ EXCEPT !.pc = "returned"], Resolved("ERROR: No serial port found", 0))]
    /\ UNCHANGED <<fnVars, now, boards, last>>

\* the binding opened the port
UartOpened(u) ==
    /\ uart[u].handle = "opening"
    /\ uart' = [uart EXCEPT ![u].handle = "open"]
    /\ UNCHANGED <<fnVars, now, boards, last>>

\* the binding could not open the port: an error event
UartOpenFailed(u) ==
    /\ uart[u].handle = "opening"
    /\ uart' = [uart EXCEPT ![u] = onError([@ EXCEPT !.handle = "failed"])]
    /\ UNCHANGED <<fnVars, now, boards, last>>

\* uart.ts:58-60: the parser delivers a line
UartData(u) ==
    /\ uart[u].handle = "open"
    /\ uart[u].lines < MaxUartLines
    /\ uart' = [uart EXCEPT ![u].lines = @ + 1]
    /\ UNCHANGED <<fnVars, now, boards, last>>

\* an error event on the open port
UartError(u) ==
    /\ uart[u].handle = "open"
    /\ uart[u].pc = "listening"
    /\ uart' = [uart EXCEPT ![u] = onError(@)]
    /\ UNCHANGED <<fnVars, now, boards, last>>

\* the duration timer fires
UartTimer(u) ==
    /\ TimerDue(uart[u])
    /\ uart' = [uart EXCEPT ![u] = onTimer(@, now)]
    /\ UNCHANGED <<fnVars, now, boards, last>>

\* One second passes on an idle event loop: due timers and the completion of a
\* pending open (milliseconds) come first
Tick ==
    /\ now < MaxTime
    /\ \A u \in UartIds : ~TimerDue(uart[u]) /\ uart[u].handle # "opening"
    /\ now' = now + 1
    /\ UNCHANGED <<fnVars, uart, boards, last>>

\* what the server keeps of a handled call: the tool, whether it raised, and
\* how many child processes it ran
Effect(tool, h) == [tool |-> tool, raised |-> h.raised, runs |-> Len(h.procs)]

FlashEffects ==
    {Effect("flash", toolFlash(a, sc, bo, fo)) :
        a \in FlashArgs, sc \in Sidecars, bo \in ProcOutcomes, fo \in ProcOutcomes}
BuildInfoEffects ==
    {Effect("get_build_info", toolGetBuildInfo([sample_path |-> sp], [vscode |-> f, buildInfo |-> f, domains |-> None])) :
        sp \in {None, Some("/work/sample")}, f \in FileTexts}
ResetEffects ==
    {Effect("reset_board", toolReset([snr |-> None], o)) : o \in ProcOutcomes}

\* A handler without an await runs to completion in one callback; execFileSync
\* blocks the event loop while each child runs (run.ts:18), so the clock
\* advances inside the callback and nothing else is served meanwhile
Blocking(e) ==
    \E dur \in 0..MaxBlock :
        /\ e.runs = 0 => dur = 0
        /\ now + dur <= MaxTime
        /\ now' = now + dur
        /\ last' = e

Flash ==
    /\ \E e \in FlashEffects : Blocking(e)
    /\ UNCHANGED <<fnVars, uart, boards>>

Reset ==
    /\ \E e \in ResetEffects : Blocking(e)
    /\ UNCHANGED <<fnVars, uart, boards>>

GetBuildInfo ==
    /\ \E e \in BuildInfoEffects : Blocking(e)
    /\ UNCHANGED <<fnVars, uart, boards>>

ListBoardsEffects ==
    {Effect("list_boards", toolListBoards(o, ports)) : o \in ProcOutcomes, ports \in SrvPortLists}

\* list_boards up to its await: nrfjprog --ids has run (and blocked the loop)
ListBoards ==
    /\ boards = "idle"
    /\ \E dur \in 0..MaxBlock :
         /\ now + dur <= MaxTime
         /\ now' = now + dur
    /\ boards' = "listing"
    /\ UNCHANGED <<fnVars, uart, last>>

\* SerialPort.list() resolved: list_boards returns its text
ListBoardsListed ==
    /\ boards = "listing"
    /\ boards' = "idle"
    /\ \E e \in ListBoardsEffects : last' = e
    /\ UNCHANGED <<fnVars, now, uart>>

----------------------------------------------------------------------------
(* index.ts: the request handler (CallToolRequestSchema)                   *)

ErrSupplyBoard == <<Line("ERROR", "No board: supply one", 0)>>

\* toolBuild(args) of tools/build.ts: the board is the argument or the board
\* of the sidecar; without one an error string is returned and nothing runs;
\* otherwise one run of west build in samplePath (timeout 300 s), formatted
toolBuild(args, sidecar, bo) ==
    LET looked == getBoardFromVsCode(args.sample_path, sidecar)
        board == IF ~NoBoard(args.board) THEN args.board
                 ELSE IF looked.raised THEN None ELSE looked.results[1]
        p == Proc("build", board, None, args.sample_path, 300000, bo)
    IN  IF NoBoard(board) THEN Handled(<<>>, Return(ErrSupplyBoard))
        ELSE Handled(<<p>>, Return(fmt(p.result, "BUILD")))

\* build is drawn with its required sample_path
BuildArgs == {a \in FlashArgs : a.sample_path # None /\ a.build_first = None /\ a.snr = None}

BuildEffects ==
    {Effect("build", toolBuild(a, sc, bo)) : a \in BuildArgs, sc \in Sidecars, bo \in ProcOutcomes}

\* index.ts:177-178: the default case sets the text itself, no handler runs
unknownTool(name) == Handled(<<>>, Return(<<Line("Unknown tool", name, 0)>>))

\* index.ts:152-182: text = await tool(a); return {content: [{type: "text", text}]}.
\* There is no try/catch: an exception of the tool rejects the handler's promise
requestHandler(e) == IF e.raised THEN "rejected" ELSE "text"

Build ==
    /\ \E e \in BuildEffects : Blocking(e)
    /\ UNCHANGED <<fnVars, uart, boards>>

UnknownTool ==
    /\ last' = Effect("unknown", unknownTool("erase"))
    /\ UNCHANGED <<fnVars, now, uart, boards>>

Init ==
    /\ op = "server" /\ input = <<>> /\ output = <<>>
    /\ now = 0
    /\ uart = [u \in UartIds |-> UartIdle]
    /\ boards = "idle"
    /\ last = [tool |-> "none", raised |-> FALSE, runs |-> 0]

Next ==
    \/ \E u \in UartIds :
         \/ UartCall(u) \/ UartFound(u) \/ UartNoPort(u) \/ UartOpened(u) \/ UartOpenFailed(u)
         \/ UartData(u) \/ UartError(u) \/ UartTimer(u)
    \/ Tick
    \/ Flash \/ Reset \/ GetBuildInfo \/ ListBoards \/ ListBoardsListed
    \/ Build \/ UnknownTool

Spec == Init /\ [][Next]_vars

(* C5: every read_uart_logs call that opens a port closes it when its      *)
(* duration timer fires, with or without data or an error event before:    *)
(* no handle is open once the timer has fired.                             *)
UartHandleReleasedOnTimer ==
    \A u \in UartIds : uart[u].pc = "fired" => uart[u].handle # "open"

(* C6: a read_uart_logs call of duration d closes and returns exactly d    *)
(* seconds after it opened the port, also when other operations are        *)
(* dispatched while it listens.                                            *)
UartListensExactlyDuration ==
    \A u \in UartIds : uart[u].pc = "fired" => uart[u].firedAt = uart[u].openedAt + uart[u].d

(* C11: every request the dispatcher handles, whatever the tool name and   *)
(* the arguments (a missing sample_path included), ends with a text        *)
(* response: no fault of a handler escapes the request handler; and calls  *)
(* that ended leave the server as a fresh one (no port held).              *)
EveryRequestEndsWithText ==
    /\ last.tool # "none" => requestHandler(last) = "text"
    /\ \A u \in UartIds :
           (uart[u].pc \in {"fired", "returned"} /\ uart[u].promise # None) =>
               uart[u].handle \notin {"open", "opening"}

\* the port of the call has been opened at some moment
PortWasOpened(c) == c.handle \in {"open", "closed"}

(* C12: read_uart_logs delivers its result only after it has closed the    *)
(* port: whenever a port was opened, the handle is closed at the moment    *)
(* the promise resolves, and the result is the "no output" text or the     *)
(* header with the captured lines, also when an error event precedes the   *)
(* timer.                                                                  *)
UartResolvesAfterClose ==
    \A u \in UartIds :
        (uart[u].promise # None /\ PortWasOpened(uart[u])) =>
            /\ uart[u].atResolve = "closed"
            /\ \E r \in uart[u].promise : r.kind \in {"No output", "UART LOG"}
====
